---- MODULE Spec2Model ----
(***************************************************************************)
(* Model of extract_temperature.py: export_temperatures walks the frames   *)
(* of one step of an Abaqus ODB, filters them by stride and time window,   *)
(* joins every nodal value with its cached coordinates and writes rows to  *)
(* one CSV sink or to one sink per node set.                               *)
(*                                                                         *)
(* Strings that the code transforms (node-set names, file paths) are       *)
(* sequences of one-character strings, so that str.replace, splitext and   *)
(* sorted() are computed and not assumed.  Frame times are integers: the   *)
(* code only compares them.                                                *)
(***************************************************************************)
EXTENDS Integers, Sequences, FiniteSets, TLC

\* ------------------------------------------------------------------ bounds
MaxFrames == 3
MaxTime == 2
MaxStride == 2
MaxSets == 2

\* ------------------------------------------------------- character strings
SEP == "/"
\* code points order the characters the way Python compares str
Alphabet == <<" ", ".", "/", "A", "B", "E", "G", "H", "L", "P", "T",
              "_", "a", "c", "l", "o", "s", "v">>

Ord(c) == CHOOSE i \in 1..Len(Alphabet) : Alphabet[i] = c

RECURSIVE StrLess(_, _)
StrLess(s, t) ==
  IF t = <<>> THEN FALSE
  ELSE IF s = <<>> THEN TRUE
  ELSE IF Ord(Head(s)) # Ord(Head(t)) THEN Ord(Head(s)) < Ord(Head(t))
  ELSE StrLess(Tail(s), Tail(t))

\* str.replace(old, new) for a one-character old
Replace(s, old, new) == [i \in 1..Len(s) |-> IF s[i] = old THEN new ELSE s[i]]

Range(f) == {f[x] : x \in DOMAIN f}

RECURSIVE Insert(_, _)
Insert(x, sorted) ==
  IF sorted = <<>> THEN <<x>>
  ELSE IF StrLess(x, Head(sorted)) THEN <<x>> \o sorted
  ELSE <<Head(sorted)>> \o Insert(x, Tail(sorted))

RECURSIVE SortedNames(_)
SortedNames(S) ==
  IF S = {} THEN <<>>
  ELSE LET x == CHOOSE y \in S : TRUE
       IN Insert(x, SortedNames(S \ {x}))

\* ------------------------------------------------------------- the archive
KnownStep == <<"H">>
GhostStep == <<"G">>
OdbSteps == {KnownStep}

P1 == <<"P", "1">>
P2 == <<"P", "2">>

\* rootAssembly.instances.values(): each instance numbers its own nodes
Instances ==
  << [name |-> P1, nodes |-> << [label |-> 1, coordinates |-> <<0, 0, 0>>],
                                [label |-> 2, coordinates |-> <<1, 0, 0>>] >>],
     [name |-> P2, nodes |-> << [label |-> 1, coordinates |-> <<0, 1, 5>>] >>] >>

SetAsB == <<"A", " ", "B">>
SetA_B == <<"A", "_", "B">>
SetE == <<"E">>
SetG == <<"G">>

\* rootAssembly.nodeSets: name -> the nodes (instance, label) of the set
NodeSets ==
  (SetAsB :> { <<P1, 1>> }) @@
  (SetA_B :> { <<P1, 2>>, <<P2, 1>>, <<P2, 2>> }) @@
  (SetE :> {})

NodeSetNames == DOMAIN NodeSets


ALL == <<"A", "L", "L">>
AllKey == <<"_", "_", "a", "l", "l", "_", "_">>
field_variable == "NT11"
header == <<"frame_index", "step_time", "node_set", "instance", "node_label",
            "x", "y", "z", field_variable>>

\* the nodes, in archive order, at which a frame's field stores a value; a
\* corrupt archive stores a value at a node that no instance owns
FieldNodes(bad) ==
  IF bad THEN << <<P1, 1>>, <<P1, 2>>, <<P2, 2>>, <<P2, 1>> >>
  ELSE << <<P1, 1>>, <<P1, 2>>, <<P2, 1>> >>

\* frame.fieldOutputs[field_variable].values of frame i
FieldValues(i, bad) ==
  [k \in 1..Len(FieldNodes(bad)) |->
     [instance |-> FieldNodes(bad)[k][1],
      nodeLabel |-> FieldNodes(bad)[k][2],
      data |-> 300 + 10 * i + k]]

InRegion(value, region) ==
  region = ALL \/ <<value.instance, value.nodeLabel>> \in NodeSets[region]

\* field.getSubset(region=..., position=NODAL).values
GetSubset(i, bad, region) ==
  SelectSeq(FieldValues(i, bad), LAMBDA value : InRegion(value, region))

\* ---------------------------------------------------------------- helpers
RECURSIVE CoordMap(_)
CoordMap(nodes) ==
  IF nodes = <<>> THEN <<>>
  ELSE LET n == nodes[Len(nodes)]
       IN (n.label :> n.coordinates) @@ CoordMap(SubSeq(nodes, 1, Len(nodes) - 1))

RECURSIVE _build_coordinate_cache(_)
_build_coordinate_cache(instances) ==
  IF instances = <<>> THEN <<>>
  ELSE LET inst == instances[Len(instances)]
       IN (inst.name :> CoordMap(inst.nodes)) @@
          _build_coordinate_cache(SubSeq(instances, 1, Len(instances) - 1))

HasCoords(cache, value) ==
  /\ value.instance \in DOMAIN cache
  /\ value.nodeLabel \in DOMAIN cache[value.instance]

\* variant: the cache is read by node label alone, as if labels were global
LookupCoordsByLabel(cache, value) == cache[P1][value.nodeLabel]

LookupCoords(cache, value) == cache[value.instance][value.nodeLabel]

LastIndex(s, c) ==
  LET hits == {i \in 1..Len(s) : s[i] = c}
  IN IF hits = {} THEN 0 ELSE CHOOSE i \in hits : \A j \in hits : j <= i

\* os.path.splitext: the extension starts at the last dot of the last path
\* component, unless only dots precede it there
Splitext(p) ==
  LET sepIdx == LastIndex(p, SEP)
      dotIdx == LastIndex(p, ".")
  IN IF dotIdx > sepIdx /\ \E k \in (sepIdx + 1)..(dotIdx - 1) : p[k] # "."
     THEN <<SubSeq(p, 1, dotIdx - 1), SubSeq(p, dotIdx, Len(p))>>
     ELSE <<p, <<>> >>

SafeName(set_name) == Replace(Replace(set_name, SEP, "_"), " ", "_")

SplitPath(output, set_name) ==
  LET base == Splitext(output)[1]
      ext == IF Splitext(output)[2] = <<>> THEN <<".", "c", "s", "v">>
             ELSE Splitext(output)[2]
  IN base \o <<"_", "_">> \o SafeName(set_name) \o ext

_open_writer(path, hdr) ==
  [path |-> path, closed |-> FALSE, records |-> <<hdr>>]

\* ", ".join(sorted(keys)): the names in sorted order
Available(names) == SortedNames(names)

\* variant: a name the catalog lacks is passed over instead of raising
RECURSIVE _resolve_skip_unknown(_, _)
_resolve_skip_unknown(requested_sets, resolved) ==
  IF requested_sets = <<>> THEN [ok |-> TRUE, resolved |-> resolved]
  ELSE IF Head(requested_sets) \notin NodeSetNames
       THEN _resolve_skip_unknown(Tail(requested_sets), resolved)
       ELSE _resolve_skip_unknown(Tail(requested_sets),
                                  Append(resolved, Head(requested_sets)))

\* _resolve_node_sets: the first requested name the catalog lacks raises
RECURSIVE _resolve_node_sets(_, _)
_resolve_node_sets(requested_sets, resolved) ==
  IF requested_sets = <<>> THEN [ok |-> TRUE, resolved |-> resolved]
  ELSE IF Head(requested_sets) \notin NodeSetNames
       THEN [ok |-> FALSE, name |-> Head(requested_sets),
             available |-> Available(NodeSetNames)]
       ELSE _resolve_node_sets(Tail(requested_sets),
                               Append(resolved, Head(requested_sets)))


\* ------------------------------------------------------------------ state
VARIABLES
  step_name, node_sets, start_time, end_time, frame_stride,
  split_by_node_set, output_csv,   \* the arguments of export_temperatures
  frames, corrupt,                 \* the archive: step.frames, field content
  pc,                              \* position in export_temperatures
  odb,                             \* "unopened", "open" or "closed"
  regions,                         \* resolved node sets; <<>> is None
  coord_cache,
  writer_handles,                  \* key -> [path, closed, records]
  frame_index, rpos, vpos,         \* loop positions: frame, region, value
  err,                             \* the exception that ended the run
  rows,                            \* every writerow of a data row, in order
  examined,                        \* frames whose frameValue was read
  processed                        \* frames whose field output was read

args == <<step_name, node_sets, start_time, end_time, frame_stride,
          split_by_node_set, output_csv>>
archive == <<frames, corrupt>>
vars == <<args, archive, pc, odb, regions, coord_cache, writer_handles,
          frame_index, rpos, vpos, err, rows, examined, processed>>

None == <<>>
NoError == [kind |-> "none", name |-> <<>>, available |-> <<>>]

Times == 0..MaxTime
OptTimes == {None} \cup {<<t>> : t \in Times}

SeqsUpTo(S, n) == UNION {[1..k -> S] : k \in 0..n}

FrameRecs == [frameValue : Times, hasField : BOOLEAN]

\* a well-formed transient step: time grows with the index, all fields stored
RegularFrames(n) ==
  [i \in 1..n |-> [frameValue |-> IF i - 1 < MaxTime THEN i - 1 ELSE MaxTime,
                   hasField |-> TRUE]]

RequestNames == NodeSetNames \cup {SetG}
OutputPaths == { <<"o", ".", "c", "s", "v">>, <<"o">> }

\* every frame sequence, window and stride, written to the one default sink
ScanInputs ==
  /\ frames \in SeqsUpTo(FrameRecs, MaxFrames)
  /\ start_time \in OptTimes
  /\ end_time \in OptTimes
  /\ frame_stride \in 0..MaxStride
  /\ step_name = KnownStep
  /\ node_sets = <<>>
  /\ split_by_node_set = FALSE
  /\ output_csv = <<"o", ".", "c", "s", "v">>
  /\ corrupt = FALSE

\* every request, routing mode and archive defect, over a well-formed step
RouteInputs ==
  /\ frames \in {RegularFrames(n) : n \in 0..MaxFrames}
  /\ start_time = None
  /\ end_time = None
  /\ frame_stride = 1
  /\ step_name \in {KnownStep, GhostStep}
  /\ node_sets \in SeqsUpTo(RequestNames, MaxSets)
  /\ split_by_node_set \in BOOLEAN
  /\ output_csv \in OutputPaths
  /\ corrupt \in BOOLEAN

Init ==
  /\ ScanInputs \/ RouteInputs
  /\ pc = "start"
  /\ odb = "unopened"
  /\ regions = None
  /\ coord_cache = <<>>
  /\ writer_handles = <<>>
  /\ frame_index = 0
  /\ rpos = 0
  /\ vpos = 0
  /\ err = NoError
  /\ rows = <<>>
  /\ examined = {}
  /\ processed = {}


\* ---------------------------------------------------------- loop operators
Frame(i) == frames[i + 1]

\* variant: the stride counts frames from one
StrideSkipsOneBased(i) == (i + 1) % frame_stride # 0

\* line 115: if frame_index % frame_stride: continue
StrideSkips(i) == i % frame_stride # 0

\* variant: the lower bound is exclusive
BeforeStartExclusive(t) == start_time # None /\ t <= start_time[1]

\* line 118: start_time is not None and current_time < start_time
BeforeStart(t) == start_time # None /\ t < start_time[1]

\* line 120: end_time is not None and current_time > end_time
AfterEnd(t) == end_time # None /\ t > end_time[1]

\* variant: the regions are visited in sorted name order
RegionIterSorted ==
  IF regions # <<>> THEN SortedNames(Range(regions)) ELSE <<ALL>>

\* lines 129-135: the (region name, subset) pairs of one frame, by name
RegionIter == IF regions # <<>> THEN regions ELSE <<ALL>>

Subset(i, r) == GetSubset(i, corrupt, RegionIter[r])

\* the next (region, value) position at or after (r, v) that holds a value;
\* <<0, 0>> when the frame has none left
RECURSIVE Seek(_, _, _)
Seek(i, r, v) ==
  IF r > Len(RegionIter) THEN <<0, 0>>
  ELSE IF v <= Len(Subset(i, r)) THEN <<r, v>>
  ELSE Seek(i, r + 1, 1)

\* variant: split mode opens the file on every call
get_writer_reopen(handles, set_name) ==
  IF ~split_by_node_set THEN handles
  ELSE (set_name :> _open_writer(SplitPath(output_csv, set_name), header)) @@ handles

\* lines 100-105 and 111-112: the sinks after get_writer(set_name)
get_writer(handles, set_name) ==
  IF ~split_by_node_set THEN handles
  ELSE IF set_name \in DOMAIN handles THEN handles
  ELSE handles @@ (set_name :> _open_writer(SplitPath(output_csv, set_name), header))

WriterKey(set_name) == IF split_by_node_set THEN set_name ELSE AllKey

MakeRow(i, t, region_name, value, coords) ==
  <<i, t, region_name, value.instance, value.nodeLabel,
    coords[1], coords[2], coords[3], value.data>>

\* --------------------------------------------------------------- actions
\* lines 72-73
RejectStride ==
  /\ pc = "start"
  /\ frame_stride < 1
  /\ err' = [NoError EXCEPT !.kind = "ValueError"]
  /\ pc' = "done"
  /\ UNCHANGED <<args, archive, odb, regions, coord_cache, writer_handles,
                 frame_index, rpos, vpos, rows, examined, processed>>

\* line 75
OpenOdb ==
  /\ pc = "start"
  /\ ~(frame_stride < 1)
  /\ odb' = "open"
  /\ pc' = "step"
  /\ UNCHANGED <<args, archive, regions, coord_cache, writer_handles,
                 frame_index, rpos, vpos, err, rows, examined, processed>>

\* lines 78-82: SystemExit raised outside the try block
UnknownStep ==
  /\ pc = "step"
  /\ step_name \notin OdbSteps
  /\ err' = [kind |-> "step", name |-> step_name, available |-> Available(OdbSteps)]
  /\ pc' = "done"
  /\ UNCHANGED <<args, archive, odb, regions, coord_cache, writer_handles,
                 frame_index, rpos, vpos, rows, examined, processed>>

\* line 83
SelectStep ==
  /\ pc = "step"
  /\ step_name \in OdbSteps
  /\ pc' = "resolve"
  /\ UNCHANGED <<args, archive, odb, regions, coord_cache, writer_handles,
                 frame_index, rpos, vpos, err, rows, examined, processed>>

\* lines 85-87 with a missing name: SystemExit raised outside the try block
ResolveFails ==
  /\ pc = "resolve"
  /\ node_sets # <<>>
  /\ LET res == _resolve_node_sets(node_sets, <<>>)
     IN /\ ~res.ok
        /\ err' = [kind |-> "nodeset", name |-> res.name, available |-> res.available]
  /\ pc' = "done"
  /\ UNCHANGED <<args, archive, odb, regions, coord_cache, writer_handles,
                 frame_index, rpos, vpos, rows, examined, processed>>

\* lines 85-87
Resolve ==
  /\ pc = "resolve"
  /\ IF node_sets # <<>>
     THEN LET res == _resolve_node_sets(node_sets, <<>>)
          IN res.ok /\ regions' = res.resolved
     ELSE regions' = None
  /\ pc' = "cache"
  /\ UNCHANGED <<args, archive, odb, coord_cache, writer_handles,
                 frame_index, rpos, vpos, err, rows, examined, processed>>

\* lines 89-93
BuildCache ==
  /\ pc = "cache"
  /\ coord_cache' = _build_coordinate_cache(Instances)
  /\ writer_handles' = <<>>
  /\ pc' = "writers"
  /\ UNCHANGED <<args, archive, odb, regions, frame_index, rpos, vpos, err,
                 rows, examined, processed>>

\* lines 95-105: split mode opens nothing up front
SetupSplit ==
  /\ pc = "writers"
  /\ split_by_node_set
  /\ pc' = "loop"
  /\ UNCHANGED <<args, archive, odb, regions, coord_cache, writer_handles,
                 frame_index, rpos, vpos, err, rows, examined, processed>>

\* lines 107-112: the single sink is opened, header first
SetupSingle ==
  /\ pc = "writers"
  /\ ~split_by_node_set
  /\ writer_handles' = (AllKey :> _open_writer(output_csv, header))
  /\ pc' = "loop"
  /\ UNCHANGED <<args, archive, odb, regions, coord_cache,
                 frame_index, rpos, vpos, err, rows, examined, processed>>


\* line 114: step.frames is exhausted
LoopExit ==
  /\ pc = "loop"
  /\ frame_index = Len(frames)
  /\ pc' = "finally"
  /\ UNCHANGED <<args, archive, odb, regions, coord_cache, writer_handles,
                 frame_index, rpos, vpos, err, rows, examined, processed>>

\* lines 115-116
SkipStride ==
  /\ pc = "loop"
  /\ frame_index < Len(frames)
  /\ StrideSkips(frame_index)
  /\ frame_index' = frame_index + 1
  /\ UNCHANGED <<args, archive, pc, odb, regions, coord_cache, writer_handles,
                 rpos, vpos, err, rows, examined, processed>>

\* lines 117-119
SkipBeforeStart ==
  /\ pc = "loop"
  /\ frame_index < Len(frames)
  /\ ~StrideSkips(frame_index)
  /\ examined' = examined \cup {frame_index}
  /\ BeforeStart(Frame(frame_index).frameValue)
  /\ frame_index' = frame_index + 1
  /\ UNCHANGED <<args, archive, pc, odb, regions, coord_cache, writer_handles,
                 rpos, vpos, err, rows, processed>>

\* variant: a frame later than end_time is passed over, the scan goes on
ContinueAfterEnd ==
  /\ pc = "loop"
  /\ frame_index < Len(frames)
  /\ ~StrideSkips(frame_index)
  /\ examined' = examined \cup {frame_index}
  /\ ~BeforeStart(Frame(frame_index).frameValue)
  /\ AfterEnd(Frame(frame_index).frameValue)
  /\ frame_index' = frame_index + 1
  /\ UNCHANGED <<args, archive, pc, odb, regions, coord_cache, writer_handles,
                 rpos, vpos, err, rows, processed>>

\* lines 120-121: break leaves the loop for the finally block
BreakAfterEnd ==
  /\ pc = "loop"
  /\ frame_index < Len(frames)
  /\ ~StrideSkips(frame_index)
  /\ examined' = examined \cup {frame_index}
  /\ ~BeforeStart(Frame(frame_index).frameValue)
  /\ AfterEnd(Frame(frame_index).frameValue)
  /\ pc' = "finally"
  /\ UNCHANGED <<args, archive, odb, regions, coord_cache, writer_handles,
                 frame_index, rpos, vpos, err, rows, processed>>

\* the frame passes lines 115-121
Passes(i) ==
  /\ ~StrideSkips(i)
  /\ ~BeforeStart(Frame(i).frameValue)
  /\ ~AfterEnd(Frame(i).frameValue)

\* variant: a frame without the field is passed over, the scan goes on
SkipMissingField ==
  /\ pc = "loop"
  /\ frame_index < Len(frames)
  /\ Passes(frame_index)
  /\ examined' = examined \cup {frame_index}
  /\ ~Frame(frame_index).hasField
  /\ frame_index' = frame_index + 1
  /\ UNCHANGED <<args, archive, pc, odb, regions, coord_cache, writer_handles,
                 rpos, vpos, err, rows, processed>>

\* lines 123-126: SystemExit raised inside the try block
MissingField ==
  /\ pc = "loop"
  /\ frame_index < Len(frames)
  /\ Passes(frame_index)
  /\ examined' = examined \cup {frame_index}
  /\ ~Frame(frame_index).hasField
  /\ err' = [NoError EXCEPT !.kind = "field"]
  /\ pc' = "finally"
  /\ UNCHANGED <<args, archive, odb, regions, coord_cache, writer_handles,
                 frame_index, rpos, vpos, rows, processed>>

\* lines 127-137: the field is read and the region/value loops start; a frame
\* whose subsets are all empty is finished at once
ReadField ==
  /\ pc = "loop"
  /\ frame_index < Len(frames)
  /\ Passes(frame_index)
  /\ examined' = examined \cup {frame_index}
  /\ Frame(frame_index).hasField
  /\ processed' = processed \cup {frame_index}
  /\ LET pos == Seek(frame_index, 1, 1)
     IN IF pos = <<0, 0>>
        THEN /\ frame_index' = frame_index + 1
             /\ UNCHANGED <<pc, rpos, vpos>>
        ELSE /\ pc' = "rows"
             /\ rpos' = pos[1]
             /\ vpos' = pos[2]
             /\ UNCHANGED frame_index
  /\ UNCHANGED <<args, archive, odb, regions, coord_cache, writer_handles,
                 err, rows>>

\* lines 138-154: one value becomes one row in the sink of its region
EmitRow ==
  /\ pc = "rows"
  /\ LET value == Subset(frame_index, rpos)[vpos]
         region_name == RegionIter[rpos]
         key == WriterKey(region_name)
         opened == get_writer(writer_handles, region_name)
         pos == Seek(frame_index, rpos, vpos + 1)
     IN /\ HasCoords(coord_cache, value)
        /\ LET row == MakeRow(frame_index, Frame(frame_index).frameValue,
                              region_name, value, LookupCoords(coord_cache, value))
           IN /\ writer_handles' =
                   [opened EXCEPT ![key].records = Append(@, row)]
              /\ rows' = Append(rows, [row |-> row, key |-> key, rpos |-> rpos])
        /\ IF pos = <<0, 0>>
           THEN /\ frame_index' = frame_index + 1
                /\ pc' = "loop"
                /\ rpos' = 0
                /\ vpos' = 0
           ELSE /\ rpos' = pos[1]
                /\ vpos' = pos[2]
                /\ UNCHANGED <<pc, frame_index>>
  /\ UNCHANGED <<args, archive, odb, regions, coord_cache, err, examined,
                 processed>>

\* line 140: KeyError raised inside the try block
MissingCoordinate ==
  /\ pc = "rows"
  /\ ~HasCoords(coord_cache, Subset(frame_index, rpos)[vpos])
  /\ err' = [NoError EXCEPT !.kind = "coord"]
  /\ pc' = "finally"
  /\ UNCHANGED <<args, archive, odb, regions, coord_cache, writer_handles,
                 frame_index, rpos, vpos, rows, examined, processed>>

\* lines 155-158
Finally ==
  /\ pc = "finally"
  /\ writer_handles' =
       [k \in DOMAIN writer_handles |-> [writer_handles[k] EXCEPT !.closed = TRUE]]
  /\ odb' = "closed"
  /\ pc' = "done"
  /\ UNCHANGED <<args, archive, regions, coord_cache, frame_index, rpos, vpos,
                 err, rows, examined, processed>>

Next ==
  \/ RejectStride
  \/ OpenOdb
  \/ UnknownStep
  \/ SelectStep
  \/ ResolveFails
  \/ Resolve
  \/ BuildCache
  \/ SetupSplit
  \/ SetupSingle
  \/ LoopExit
  \/ SkipStride
  \/ SkipBeforeStart
  \/ BreakAfterEnd
  \/ MissingField
  \/ ReadField
  \/ EmitRow
  \/ MissingCoordinate
  \/ Finally

Spec == Init /\ [][Next]_vars


\* ------------------------------------------------------ shared vocabulary
FrameIds == 0..(Len(frames) - 1)
TimeOf(i) == frames[i + 1].frameValue
Stopped == pc \in {"finally", "done"}
Monotone == \A i, j \in FrameIds : i < j => TimeOf(i) <= TimeOf(j)
InWindow(t) ==
  /\ start_time = None \/ t >= start_time[1]
  /\ end_time = None \/ t <= end_time[1]
RowFrames == {rows[k].row[1] : k \in 1..Len(rows)}
RowsOfKey(key) ==
  LET hit == SelectSeq(rows, LAMBDA e : e.key = key)
  IN [k \in 1..Len(hit) |-> hit[k].row]
RowsOfFrame(i) ==
  LET hit == SelectSeq(rows, LAMBDA e : e.row[1] = i)
  IN [k \in 1..Len(hit) |-> hit[k].row]
\* the regions of the request, as the caller wrote them
Requested == IF node_sets # <<>> THEN node_sets ELSE <<ALL>>
HasValues(i) == \E r \in 1..Len(Requested) : GetSubset(i, corrupt, Requested[r]) # <<>>

\* ------------------------------------------------------------------- C1
\* The frames the filter lets through, by the claim's own formula.
Qualifying == {i \in FrameIds : i % frame_stride = 0 /\ InWindow(TimeOf(i))}

\* C1: with frame_stride >= 1 and non-decreasing frame times, the frames whose
\* field is read are exactly the multiples of the stride whose time lies in
\* the closed window [start_time, end_time]: never another frame, every such
\* frame the scan has passed, and all of them once the run ends without an
\* error; rows are emitted for exactly those of them that hold a value.
C1_StrideAndWindow ==
  (frame_stride >= 1 /\ Monotone) =>
    /\ processed \subseteq Qualifying
    /\ \A i \in Qualifying : i < frame_index => i \in processed
    /\ (Stopped /\ err.kind = "none") =>
         /\ processed = Qualifying
         /\ RowFrames = {i \in Qualifying : HasValues(i)}

\* a frame below start_time was skipped, and a later frame whose time equals
\* both bounds was processed, with a stride-skipped frame in between
C1_Witness ==
  /\ pc = "done" /\ err.kind = "none" /\ Monotone /\ frame_stride = 2
  /\ start_time # None /\ end_time # None
  /\ \E i, j \in FrameIds :
       /\ i < j
       /\ i \in examined /\ TimeOf(i) < start_time[1] /\ i \notin processed
       /\ j \in RowFrames /\ TimeOf(j) = start_time[1] /\ TimeOf(j) = end_time[1]

\* ------------------------------------------------------------------- C2
\* C2: every error raised after the archive was opened (unknown step, unknown
\* node set, missing field, missing coordinate) leaves the archive handle
\* closed and every opened sink closed when the run has ended.
C2_ErrorPathsRelease ==
  (pc = "done" /\ err.kind \in {"step", "nodeset", "field", "coord"}) =>
    /\ odb = "closed"
    /\ \A k \in DOMAIN writer_handles : writer_handles[k].closed

\* ------------------------------------------------------------------- C3
\* C3: with end_time set, an examined frame that is not below start_time and
\* whose time is strictly greater than end_time stops the scan there; no
\* frame from the first examined frame later than end_time onwards has its
\* field read or emits a row, whatever the times of later frames; a run that
\* ends without error before the last frame ended at a frame strictly later
\* than end_time, so a frame whose time equals end_time never ends it.
C3_EndTimeBreak ==
  /\ \A i \in examined :
       (end_time # None /\ TimeOf(i) > end_time[1]) =>
         /\ \A j \in processed \cup RowFrames : j < i
         /\ (start_time = None \/ TimeOf(i) >= start_time[1]) =>
              (Stopped /\ frame_index = i /\ \A j \in examined : j <= i)
  /\ (Stopped /\ err.kind = "none" /\ frame_index < Len(frames)) =>
       /\ frame_index \in examined
       /\ end_time # None
       /\ TimeOf(frame_index) > end_time[1]
  /\ \A i \in examined :
       (end_time # None /\ TimeOf(i) = end_time[1] /\ InWindow(TimeOf(i))
          /\ frames[i + 1].hasField) => i \in processed

\* a frame at end_time was processed, the next one exceeded end_time, and a
\* still later frame inside the window was never read
C3_Witness ==
  /\ pc = "done" /\ end_time # None /\ frame_stride >= 1
  /\ \E h, i, j \in FrameIds :
       /\ h < i /\ i < j
       /\ TimeOf(h) = end_time[1] /\ h \in RowFrames
       /\ i \in examined /\ TimeOf(i) > end_time[1]
       /\ j % frame_stride = 0 /\ InWindow(TimeOf(j)) /\ frames[j + 1].hasField
       /\ j \notin processed

\* ------------------------------------------------------------------- C4
UnknownRequested == {k \in 1..Len(node_sets) : node_sets[k] \notin NodeSetNames}
FirstUnknown ==
  node_sets[CHOOSE k \in UnknownRequested : \A m \in UnknownRequested : k <= m]

C5_LazySinks ==
  split_by_node_set =>
    /\ DOMAIN writer_handles = {rows[k].key : k \in 1..Len(rows)}
    /\ \A R \in DOMAIN writer_handles :
         writer_handles[R].records = <<header>> \o RowsOfKey(R)
    /\ \A k \in 1..Len(rows) : rows[k].key = rows[k].row[3]

\* a requested region ended the run with no row and no sink while another got
\* its header and one row from each of at least two frames
C5_Witness ==
  /\ pc = "done" /\ split_by_node_set /\ err.kind = "none"
  /\ \E R, Q \in Range(node_sets) :
       /\ R \notin DOMAIN writer_handles
       /\ Q \in DOMAIN writer_handles
       /\ Len(writer_handles[Q].records) >= 3
       /\ writer_handles[Q].records[1] = header

\* ------------------------------------------------------------------- C6
\* C6: rows are emitted in non-decreasing frame_index order, and inside one
\* frame in the order of the request: the row at request position r carries
\* the r-th requested name, and positions never decrease within a frame.
C6_RowOrder ==
  /\ \A a, b \in 1..Len(rows) :
       a < b =>
         /\ rows[a].row[1] <= rows[b].row[1]
         /\ rows[a].row[1] = rows[b].row[1] => rows[a].rpos <= rows[b].rpos
  /\ \A a \in 1..Len(rows) :
       /\ rows[a].rpos \in 1..Len(Requested)
       /\ rows[a].row[3] = Requested[rows[a].rpos]

\* the request names "A_B" before "A B" (the reverse of the sorted order) and
\* two frames each gave rows of both, "A_B" first
C6_Witness ==
  /\ pc = "done" /\ node_sets = <<SetA_B, SetAsB>>
  /\ \E a, b, c \in 1..Len(rows) :
       /\ a < b /\ b < c
       /\ rows[a].row[3] = SetA_B /\ rows[b].row[3] = SetAsB
       /\ rows[a].row[1] = rows[b].row[1]
       /\ rows[c].row[3] = SetA_B /\ rows[c].row[1] > rows[b].row[1]

\* ------------------------------------------------------------------- C7
\* the coordinates the archive stores for a node of an instance
ArchiveCoords(inst, label) ==
  LET I == CHOOSE k \in 1..Len(Instances) : Instances[k].name = inst
      N == CHOOSE k \in 1..Len(Instances[I].nodes) :
             Instances[I].nodes[k].label = label
  IN Instances[I].nodes[N].coordinates

RECURSIVE Pairs(_, _)
\* the (region name, value) pairs of frame i from request position r on
Pairs(i, r) ==
  IF r > Len(Requested) THEN <<>>
  ELSE LET sub == GetSubset(i, corrupt, Requested[r])
       IN [k \in 1..Len(sub) |-> [region |-> Requested[r], value |-> sub[k]]]
          \o Pairs(i, r + 1)

RowOfPair(i, p) ==
  <<i, TimeOf(i), p.region, p.value.instance, p.value.nodeLabel,
    ArchiveCoords(p.value.instance, p.value.nodeLabel)[1],
    ArchiveCoords(p.value.instance, p.value.nodeLabel)[2],
    ArchiveCoords(p.value.instance, p.value.nodeLabel)[3],
    p.value.data>>

\* C7: the rows of a frame are, one for one and in order, the values of the
\* field's subsets for the requested regions ("ALL" without a request), each
\* joined with the coordinates of its instance and label and carrying its data
\* unchanged: all of them once the frame is finished, a prefix while it is
\* being written or when it was cut short by an error; a frame whose field
\* was not read has no row.
C7_RowPerValue ==
  \A i \in FrameIds :
    IF i \notin processed THEN RowsOfFrame(i) = <<>>
    ELSE LET got == RowsOfFrame(i)
             want == Pairs(i, 1)
         IN /\ Len(got) <= Len(want)
            /\ \A k \in 1..Len(got) : got[k] = RowOfPair(i, want[k])
            /\ i < frame_index => Len(got) = Len(want)

\* a finished run without a request wrote, for its second frame, the row of
\* node 1 of instance P2 under "ALL" with that instance's own coordinates
C7_Witness ==
  /\ pc = "done" /\ err.kind = "none" /\ node_sets = <<>>
  /\ Len(frames) >= 2
  /\ \E k \in 1..Len(rows) :
       rows[k].row = <<1, TimeOf(1), ALL, P2, 1, 0, 1, 5, 313>>
  /\ Len(RowsOfFrame(1)) = 3

\* ------------------------------------------------------------------- C8
\* C8: a frame that passes the stride and window filters and lacks the field
\* aborts the export when the scan reaches it: the run stops at that frame
\* with the missing-field error, and neither that frame nor any later one has
\* its field read or a row emitted.
C8_MissingFieldAborts ==
  /\ \A i \in examined :
       (i % frame_stride = 0 /\ InWindow(TimeOf(i)) /\ ~frames[i + 1].hasField) =>
         /\ err.kind = "field"
         /\ Stopped
         /\ frame_index = i
  /\ err.kind = "field" =>
       /\ Stopped
       /\ ~frames[frame_index + 1].hasField
       /\ \A j \in processed \cup RowFrames \cup examined : j <= frame_index
       /\ frame_index \notin processed \cup RowFrames

\* rows of an earlier frame were written, the export aborted on a frame
\* without the field, and a later frame that passes the filters was not read
C8_Witness ==
  /\ pc = "done" /\ err.kind = "field" /\ rows # <<>>
  /\ \E j \in FrameIds :
       /\ j > frame_index
       /\ j % frame_stride = 0 /\ InWindow(TimeOf(j)) /\ frames[j + 1].hasField
       /\ j \notin processed

\* ------------------------------------------------------------------- C9
\* C9: only frames whose raw index is a multiple of frame_stride are examined,
\* read or written, every multiple the scan has passed was examined, and the
\* run never stops at a frame that is not a multiple: neither its time nor a
\* missing field there ends the extraction.
C9_StrideOnRawIndex ==
  frame_stride >= 1 =>
    /\ \A i \in examined \cup processed \cup RowFrames : i % frame_stride = 0
    /\ \A i \in FrameIds :
         (i < frame_index /\ i % frame_stride = 0) => i \in examined
    /\ (Stopped /\ frame_index < Len(frames)) => frame_index % frame_stride = 0

\* frame 1 is later than end_time and lacks the field, yet with stride 2 the
\* run ended without error after writing rows of frame 2; frame 0 lies below
\* start_time, so frame 2 is the first frame to pass the window
C9_Witness ==
  /\ pc = "done" /\ err.kind = "none" /\ frame_stride = 2
  /\ Len(frames) >= 3
  /\ start_time # None /\ TimeOf(0) < start_time[1]
  /\ end_time # None /\ TimeOf(1) > end_time[1]
  /\ ~frames[2].hasField
  /\ 1 \notin examined
  /\ 2 \in RowFrames

\* ------------------------------------------------------------------ C10
\* C10: in split mode the sinks of two distinct region names have distinct
\* file paths.
C10_DistinctPaths ==
  split_by_node_set =>
    \A R, Q \in DOMAIN writer_handles :
      R # Q => writer_handles[R].path # writer_handles[Q].path

======================================================================
